---- MODULE Spec2Model ----
(***************************************************************************)
(* TeraWeB (src/index.js): an Express server that downloads a video into   *)
(* the downloads directory, schedules its deletion 24 hours later with     *)
(* node-schedule, sweeps the directory every hour, and streams stored      *)
(* files with byte-range support on GET /watch/:filename.                  *)
(*                                                                         *)
(* Strings are tuples of one-character (or one-token) strings, a path is a *)
(* tuple of segments, a segment is a string in that sense.  Time is a      *)
(* discrete clock of TicksPerHour ticks per hour.  Filesystem calls issued *)
(* to the thread pool complete before the clock shows the next tick, but   *)
(* interleave freely with everything else that happens in the same tick.   *)
(***************************************************************************)
EXTENDS Integers, Sequences, FiniteSets, TLC

\* ----------------------------------------------------------------- bounds
TicksPerHour == 2
MaxDownloads == 2
MaxSize == 2
MaxFaults == 1
MaxDownloadTicks == 1

\* ------------------------------------------------------ program constants
TTLHours == 24
StatusOK == 200
StatusPartial == 206
StatusNotFound == 404
StatusError == 500

HOUR == TicksPerHour
TTL == TTLHours * HOUR
MaxTime == TTL + 3 * HOUR

\* parseInt's NaN (parseInt yields no negative number here: the split on
\* "-" removes every sign it could read)
NaN == 0 - 1000

\* ------------------------------------------------------------------ paths
AppDir == << <<"app">> >>
Dot == <<".">>
DotDot == <<".", ".">>
Mp4 == ".mp4"

\* path.normalize on the segments of a joined path: "" and "." are dropped,
\* ".." removes the segment before it (and is dropped at the root).
RECURSIVE Normalize(_, _)
Normalize(done, rest) ==
    IF rest = <<>> THEN done
    ELSE LET s == Head(rest) IN
         IF s = <<>> \/ s = Dot THEN Normalize(done, Tail(rest))
         ELSE IF s = DotDot
              THEN Normalize(IF done = <<>> THEN done
                             ELSE SubSeq(done, 1, Len(done) - 1), Tail(rest))
              ELSE Normalize(Append(done, s), Tail(rest))

PathJoin(dir, name) == Normalize(<<>>, dir \o name)

downloadsDir == PathJoin(AppDir, << <<"downloads">> >>)

\* path.basename of a path
Basename(p) == IF p = <<>> THEN <<>> ELSE p[Len(p)]

\* p lies strictly inside dir
Inside(dir, p) == Len(p) > Len(dir) /\ SubSeq(p, 1, Len(dir)) = dir

\* ---------------------------------------------------------------- strings
InvalidChars == {"<", ">", ":", "\"", "/", "\\", "|", "?", "*"}

RECURSIVE TrimLeft(_)
TrimLeft(s) == IF s # <<>> /\ Head(s) = " " THEN TrimLeft(Tail(s)) ELSE s

RECURSIVE TrimRight(_)
TrimRight(s) ==
    IF s # <<>> /\ s[Len(s)] = " " THEN TrimRight(SubSeq(s, 1, Len(s) - 1)) ELSE s

\* videoTitle.replace(/[<>:"/\\|?*]/g, '').trim()
Sanitize(title) == TrimRight(TrimLeft(SelectSeq(title, LAMBDA c : c \notin InvalidChars)))

\* `${sanitizedTitle}.mp4`
VideoFilename(title) == Append(Sanitize(title), Mp4)

VideoFilePath(title) == PathJoin(downloadsDir, << VideoFilename(title) >>)

Digits == <<"0", "1", "2", "3", "4", "5", "6", "7", "8", "9">>
IsDigit(c) == \E i \in 1..10 : Digits[i] = c
DigitVal(c) == (CHOOSE i \in 1..10 : Digits[i] = c) - 1

RECURSIVE DigitsValue(_, _)
DigitsValue(acc, s) ==
    IF s = <<>> \/ ~IsDigit(Head(s)) THEN acc
    ELSE DigitsValue(acc * 10 + DigitVal(Head(s)), Tail(s))

\* parseInt(s, 10): leading blanks skipped, then the longest run of digits;
\* NaN when there is none.
ParseInt(s) ==
    LET t == TrimLeft(s) IN
    IF t = <<>> \/ ~IsDigit(Head(t)) THEN NaN ELSE DigitsValue(0, t)

\* the decimal text of a number, as a template string prints it
RECURSIVE Dec(_)
Dec(n) ==
    IF n < 0 THEN <<"-">> \o Dec(0 - n)
    ELSE IF n < 10 THEN << Digits[n + 1] >>
    ELSE Append(Dec(n \div 10), Digits[(n % 10) + 1])

BytesEq == <<"b", "y", "t", "e", "s", "=">>

\* first index at which pat occurs in s, 0 when it does not
IndexOf(s, pat) ==
    LET hits == {i \in 1..(Len(s) - Len(pat) + 1) : SubSeq(s, i, i + Len(pat) - 1) = pat}
    IN IF hits = {} THEN 0 ELSE CHOOSE i \in hits : \A j \in hits : i <= j

\* range.replace(/bytes=/, ''): the first occurrence only
ReplaceBytes(s) ==
    LET i == IndexOf(s, BytesEq) IN
    IF i = 0 THEN s ELSE SubSeq(s, 1, i - 1) \o SubSeq(s, i + Len(BytesEq), Len(s))

\* s.split('-')
RECURSIVE Split(_, _)
Split(cur, s) ==
    IF s = <<>> THEN << cur >>
    ELSE IF Head(s) = "-" THEN << cur >> \o Split(<<>>, Tail(s))
    ELSE Split(Append(cur, Head(s)), Tail(s))

\* ------------------------------------------------------------------ state
Titles == { <<"a">>, <<"a", "/">>, <<"b">> }
StoreNames == { VideoFilename(t) : t \in Titles }
Downloads == 1..MaxDownloads

VARIABLES
    now,      \* Date.now(), in ticks
    alive,    \* the node process is running
    files,    \* the downloads directory: filename -> file (ino 0: no entry)
    dl,       \* the POST /download requests
    jobs,     \* node-schedule's pending one-shot jobs
    unlinks,  \* fs.unlink calls of fired one-shot jobs, not yet executed
    sweep,    \* the hourly job and the fs calls of its current pass; listed
              \* and checked record the pass's listing and the entries whose
              \* stat callback ran, failed the entries whose stat or unlink
              \* was handed an error, failure whether a callback of this
              \* pass or of an earlier one was handed an error
    req,      \* the GET /watch request being served
    console,  \* the last line console.log / console.error printed
    faults,   \* filesystem errors injected so far (EPERM, EBUSY, EIO)
    dels      \* per filename, the unlink attempts since the entry was created

vars == <<now, alive, files, dl, jobs, unlinks, sweep, req, console, faults, dels>>

NoFile == [ino |-> 0, owner |-> 0, content |-> <<>>, mtime |-> 0]
NewDownload == [pc |-> "new", name |-> <<>>, len |-> 0, pos |-> 0, ino |-> 0,
                since |-> 0, at |-> 0, resp |-> "none"]
NoOps == [n \in StoreNames |-> "none"]

StorePath(n) == PathJoin(downloadsDir, << n >>)

\* a file of the application outside the downloads directory
EnvPath == PathJoin(AppDir, << <<".env">> >>)
EnvContent == [k \in 1..12 |-> 100 + k]
Dirs == { SubSeq(downloadsDir, 1, k) : k \in 0..Len(downloadsDir) }

\* the byte download d writes at offset k
ByteOf(d, k) == d * 10 + k

FaultChoices == IF faults < MaxFaults THEN {FALSE, TRUE} ELSE {FALSE}

Logged(line) == line

\* ------------------------------------------------------------- filesystem
IsStored(p) == \E n \in StoreNames : p = StorePath(n) /\ files[n].ino # 0
NameOf(p) == CHOOSE n \in StoreNames : p = StorePath(n)

IsFile(p) == p = EnvPath \/ IsStored(p)

\* fs.existsSync(p)
existsSync(p) == p \in Dirs \/ IsFile(p)

\* the bytes read from p
ContentAt(p) == IF p = EnvPath THEN EnvContent ELSE files[NameOf(p)].content

\* fs.statSync(p).size (a directory's size is its entry table's, not modelled: 0)
SizeAt(p) == IF p \in Dirs THEN 0 ELSE Len(ContentAt(p))

\* fs.unlink(path) on an existing entry
Unlinked(n) == [files EXCEPT ![n] = NoFile]

\* a write of byte b at offset k (a hole below k reads as zeros)
RECURSIVE Zeros(_)
Zeros(k) == IF k <= 0 THEN <<>> ELSE Append(Zeros(k - 1), 0)

WriteAt(c, k, b) ==
    IF k < Len(c) THEN [c EXCEPT ![k + 1] = b]
    ELSE c \o Zeros(k - Len(c)) \o << b >>

\* ---------------------------------------------------------- POST /download
\* The requests arrive in the order of their numbers; a request after the
\* first arrives in the first hours or in the hours around the first
\* file's expiry.
Arrivals == { t \in 0..MaxTime : t < 2 * HOUR \/ t >= TTL - HOUR }
Arrived(d) ==
    /\ dl[d].pc = "new"
    /\ IF d = 1 THEN TRUE ELSE dl[d - 1].pc # "new" /\ now \in Arrivals

\* no teraUrl in the body: the error page, nothing else
DownloadNoUrl(d) ==
    /\ alive /\ Arrived(d)
    /\ dl' = [dl EXCEPT ![d].pc = "failed", ![d].resp = "required"]
    /\ UNCHANGED <<now, alive, files, jobs, unlinks, sweep, req, console, faults, dels>>

\* downloadVideo returns null: the API call failed or gave no "HD Video" link
DownloadNull(d) ==
    /\ alive /\ Arrived(d)
    /\ dl' = [dl EXCEPT ![d].pc = "failed", ![d].resp = "failed"]
    /\ console' = Logged(<<"download-error", <<>>>>)
    /\ UNCHANGED <<now, alive, files, jobs, unlinks, sweep, req, faults, dels>>

\* fs.createWriteStream(videoFilePath): creates the file or truncates it
DownloadOpen(d, title, len) ==
    LET n == VideoFilename(title)
        ino == IF files[n].ino = 0 THEN d ELSE files[n].ino
    IN /\ alive /\ Arrived(d)
       /\ files' = [files EXCEPT ![n] =
                      [ino |-> ino, owner |-> d, content |-> <<>>, mtime |-> now]]
       /\ dl' = [dl EXCEPT ![d] = [@ EXCEPT !.pc = "writing", !.name = n, !.len = len,
                                            !.ino = ino, !.since = now]]
       /\ dels' = IF files[n].ino = 0 THEN [dels EXCEPT ![n] = <<>>] ELSE dels
       /\ UNCHANGED <<now, alive, jobs, unlinks, sweep, req, console, faults>>

\* one chunk piped into the write stream, at the stream's own offset; a
\* stream whose file was unlinked keeps writing to the orphaned inode
DownloadWrite(d) ==
    LET n == dl[d].name IN
    /\ alive /\ dl[d].pc = "writing" /\ dl[d].pos < dl[d].len
    /\ files' = IF files[n].ino # 0 /\ files[n].ino = dl[d].ino
                THEN [files EXCEPT ![n].content = WriteAt(@, dl[d].pos, ByteOf(d, dl[d].pos)),
                                   ![n].mtime = now]
                ELSE files
    /\ dl' = [dl EXCEPT ![d].pos = @ + 1]
    /\ UNCHANGED <<now, alive, jobs, unlinks, sweep, req, console, faults, dels>>

\* the upstream response breaks off: the writer never finishes, the promise
\* never settles, the partial file stays
DownloadStall(d) ==
    /\ alive /\ dl[d].pc = "writing" /\ dl[d].pos < dl[d].len
    /\ dl' = [dl EXCEPT ![d].pc = "stalled", ![d].since = 0]
    /\ UNCHANGED <<now, alive, files, jobs, unlinks, sweep, req, console, faults, dels>>

\* a registration that replaces the job pending for the same path
ScheduledReplacing(d, n) ==
    { j \in jobs : j.name # n } \cup { [id |-> d, name |-> n, at |-> now + TTL] }

\* schedule.scheduleJob(Date.now() + 24h, unlink videoFilePath)
Scheduled(d, n) == jobs \cup { [id |-> d, name |-> n, at |-> now + TTL] }

\* writer 'finish': downloadVideo returns the path and the one-shot deletion
\* is scheduled; the upload to Telegram and the page rendered after it touch
\* neither the store nor the scheduler
DownloadFinish(d) ==
    /\ alive /\ dl[d].pc = "writing" /\ dl[d].pos = dl[d].len
    /\ jobs' = Scheduled(d, dl[d].name)
    /\ dl' = [dl EXCEPT ![d].pc = "done", ![d].at = now, ![d].since = 0,
                        ![d].resp = "urls"]
    /\ console' = Logged(<<"downloaded", dl[d].name>>)
    /\ UNCHANGED <<now, alive, files, unlinks, sweep, req, faults, dels>>

\* ------------------------------------------------------ one-shot deletion
\* the job's time has come: node-schedule runs the callback, which calls
\* fs.unlink(videoFilePath, cb)
OneShotFire(j) ==
    /\ alive /\ j \in jobs /\ j.at <= now
    /\ jobs' = jobs \ {j}
    /\ unlinks' = unlinks \cup { [id |-> j.id, name |-> j.name] }
    /\ UNCHANGED <<now, alive, files, dl, sweep, req, console, faults, dels>>

\* what fs.unlink does to the entry n: ENOENT, an injected error, or removal
UnlinkResult(n, fault) ==
    IF files[n].ino = 0 THEN "enoent" ELSE IF fault THEN "fault" ELSE "ok"

AfterUnlink(n, res) == IF res = "ok" THEN Unlinked(n) ELSE files

Attempt(n, by, res) == [dels EXCEPT ![n] = Append(@, [by |-> by, res |-> res])]

\* a callback that throws the error it is handed instead of logging it
OneShotCallbackThrows(n, res) ==
    IF res = "ok"
    THEN /\ console' = Logged(<<"oneshot-deleted", n>>)
         /\ UNCHANGED <<alive, jobs, sweep, req>>
    ELSE /\ alive' = FALSE
         /\ console' = Logged(<<"uncaught", <<"unlink">>>>)
         /\ UNCHANGED <<jobs, sweep, req>>

\* the one-shot's callback: if (err) console.error(...) else console.log(...)
OneShotCallback(n, res) ==
    /\ console' = Logged(IF res = "ok" THEN <<"oneshot-deleted", n>>
                                       ELSE <<"oneshot-error", n>>)
    /\ UNCHANGED <<alive, jobs, sweep, req>>

\* the unlink executes and its callback runs
OneShotUnlink(u, fault) ==
    LET res == UnlinkResult(u.name, fault) IN
    /\ alive /\ u \in unlinks
    /\ unlinks' = unlinks \ {u}
    /\ files' = AfterUnlink(u.name, res)
    /\ faults' = IF res = "fault" THEN faults + 1 ELSE faults
    /\ dels' = Attempt(u.name, "oneshot", res)
    /\ OneShotCallback(u.name, res)
    /\ UNCHANGED <<now, dl>>

\* ------------------------------------------------------------ hourly sweep
SweepDue == sweep.armed /\ now % HOUR = 0 /\ sweep.last < now
SweepBusy == sweep.pc # "idle" \/ sweep.ops # NoOps

\* '0 * * * *': the job fires at the top of the hour and calls fs.readdir;
\* node-schedule has the next hour's invocation scheduled
SweepTick ==
    /\ alive /\ SweepDue
    /\ sweep' = [sweep EXCEPT !.last = now, !.pc = "readdir",
                              !.listed = {}, !.checked = {}, !.failed = {},
                              !.failure = IF @ = "none" THEN "none" ELSE "earlier"]
    /\ UNCHANGED <<now, alive, files, dl, jobs, unlinks, req, console, faults, dels>>

\* the entries fs.readdir returns
Listing == { n \in StoreNames : files[n].ino # 0 }

\* files.forEach: fs.stat is called on every entry
StatCalls(listing) == [n \in StoreNames |-> IF n \in listing THEN "stat" ELSE "none"]

\* an error branch that throws the error instead of logging it
SweepErrorThrows(line) ==
    /\ alive' = FALSE
    /\ console' = Logged(<<"uncaught", <<"sweep">>>>)
    /\ UNCHANGED <<jobs, unlinks, req>>

\* a sweep callback's error branch: return console.error(...)
SweepError(line) ==
    /\ console' = Logged(line)
    /\ UNCHANGED <<alive, jobs, unlinks, req>>

\* readdir's callback
SweepReaddir(fault) ==
    /\ alive /\ sweep.pc = "readdir"
    /\ IF fault
       THEN /\ sweep' = [sweep EXCEPT !.pc = "idle", !.failure = "this"]
            /\ faults' = faults + 1
            /\ SweepError(<<"readdir-error", <<>>>>)
       ELSE /\ sweep' = [sweep EXCEPT !.pc = "idle", !.ops = StatCalls(Listing),
                                      !.listed = { n \in StoreNames : files[n].ino # 0 }]
            /\ UNCHANGED <<alive, jobs, unlinks, req, console, faults>>
    /\ UNCHANGED <<now, files, dl, dels>>

\* an age test that lets a file live one sweep period longer
ExpiredLate(mtime) == now - mtime > TTL + HOUR

\* an age test that also takes a file of exactly 24 hours
ExpiredInclusive(mtime) == now - mtime >= TTL

\* fileAge > 24 * 60 * 60 * 1000
Expired(mtime) == now - mtime > TTL

\* a stat error that ends the pass for every entry
StatFailedAborts(n) ==
    [sweep EXCEPT !.ops = NoOps, !.failure = "this",
                  !.checked = @ \cup {n}, !.failed = @ \cup {n}]

\* stat's callback with an error: `return console.error(...)` inside the
\* callback of this entry; the calls for the other entries are already issued
StatFailed(n) ==
    [sweep EXCEPT !.ops[n] = "none", !.failure = "this",
                  !.checked = @ \cup {n}, !.failed = @ \cup {n}]

\* stat's callback: an error is logged; a file older than 24 hours is unlinked
SweepStat(n, fault) ==
    /\ alive /\ sweep.ops[n] = "stat"
    /\ IF files[n].ino = 0 \/ fault
       THEN /\ sweep' = StatFailed(n)
            /\ faults' = IF files[n].ino = 0 THEN faults ELSE faults + 1
            /\ SweepError(<<"stat-error", n>>)
       ELSE /\ sweep' = [sweep EXCEPT !.checked = @ \cup {n}, !.ops[n] =
                           IF Expired(files[n].mtime) THEN "unlink" ELSE "none"]
            /\ UNCHANGED <<alive, jobs, unlinks, req, console, faults>>
    /\ UNCHANGED <<now, files, dl, dels>>

\* the sweep's unlink executes and its callback logs the outcome
SweepUnlink(n, fault) ==
    LET res == UnlinkResult(n, fault) IN
    /\ alive /\ sweep.ops[n] = "unlink"
    /\ sweep' = [sweep EXCEPT !.ops[n] = "none",
                              !.failure = IF res = "ok" THEN @ ELSE "this",
                              !.failed = IF res = "ok" THEN @ ELSE @ \cup {n}]
    /\ files' = AfterUnlink(n, res)
    /\ faults' = IF res = "fault" THEN faults + 1 ELSE faults
    /\ dels' = Attempt(n, "sweep", res)
    /\ IF res = "ok"
       THEN /\ console' = Logged(<<"sweep-deleted", n>>)
            /\ UNCHANGED <<alive, jobs, unlinks, req>>
       ELSE SweepError(<<"sweep-error", n>>)
    /\ UNCHANGED <<now, dl>>

\* ------------------------------------------------------ GET /watch/:filename
\* req.headers.range: absent, or the header's text
NoRange == [given |-> FALSE, text |-> <<>>]
Header(t) == [given |-> TRUE, text |-> t]
\* `if (range)`: an absent header and an empty one are both falsy
Truthy(range) == range.given /\ range.text # <<>>

NoHead == [length |-> 0 - 1, range |-> <<>>, accept |-> "", type |-> ""]
IdleReq == [pc |-> "idle", fn |-> <<>>, path |-> <<>>, range |-> NoRange,
            status |-> 0, head |-> NoHead, text |-> "", body |-> <<>>,
            first |-> 0, last |-> 0, end |-> "none",
            stored |-> FALSE, existed |-> FALSE, snap |-> <<>>, seen |-> <<>>]
\* stored, existed, snap and seen record the request's circumstances: whether
\* the filename named a stored file when the request arrived, whether a
\* regular file was at the path at every filesystem call made so far, and
\* the file's bytes when it was stat-ed and when it was read.

\* const parts = range.replace(/bytes=/, '').split('-')
Parts(text) == Split(<<>>, ReplaceBytes(text))
\* const start = parseInt(parts[0], 10)
RangeStart(text) == ParseInt(Parts(text)[1])
\* an end read with `parseInt(parts[1], 10) || fileSize - 1`: 0 counts as absent
RangeEndFalsy(text, fileSize) ==
    LET parts == Parts(text)
        e == IF Len(parts) >= 2 /\ parts[2] # <<>> THEN ParseInt(parts[2]) ELSE NaN
    IN IF e = NaN \/ e = 0 THEN fileSize - 1 ELSE e

\* const end = parts[1] ? parseInt(parts[1], 10) : fileSize - 1
RangeEnd(text, fileSize) ==
    LET parts == Parts(text) IN
    IF Len(parts) >= 2 /\ parts[2] # <<>> THEN ParseInt(parts[2]) ELSE fileSize - 1
\* the chunk size of a range taken as half-open
ChunkSizeExclusive(start, end) == end - start

\* const chunksize = end - start + 1
ChunkSize(start, end) == end - start + 1
\* `bytes ${start}-${end}/${fileSize}`
ContentRange(start, end, fileSize) ==
    <<"bytes ">> \o Dec(start) \o <<"-">> \o Dec(end) \o <<"/">> \o Dec(fileSize)

\* fs.createReadStream(filePath, {start, end}) throws on a start or end that
\* is no integer >= 0 and on start > end
StreamOptionsOK(start, end) ==
    /\ start # NaN /\ end # NaN
    /\ start >= 0 /\ end >= 0
    /\ start <= end

\* the bytes a read stream over content c delivers for {start, end}
StreamBytes(c, start, end) ==
    LET hi == IF end + 1 < Len(c) THEN end + 1 ELSE Len(c)
    IN IF start + 1 > hi THEN <<>> ELSE SubSeq(c, start + 1, hi)

\* how the response ends once the stream has delivered body
Ending(length, body) ==
    IF Len(body) = length THEN "finished"
    ELSE IF Len(body) < length THEN "short" ELSE "excess"

\* the headers of the 206 answer
PartialHead(start, end, fileSize) ==
    [length |-> ChunkSize(start, end), range |-> ContentRange(start, end, fileSize),
     accept |-> "bytes", type |-> "video/mp4"]

\* the full answer declaring the last offset instead of the size
FullHeadLastOffset(fileSize) == [NoHead EXCEPT !.length = fileSize - 1, !.type = "video/mp4"]

\* the headers of the 200 answer
FullHead(fileSize) == [NoHead EXCEPT !.length = fileSize, !.type = "video/mp4"]

\* an exception thrown inside the route handler: Express answers 500
Thrown(r) == [r EXCEPT !.pc = "done", !.status = StatusError, !.end = "finished"]

\* the request arrives: filePath is joined and checked with fs.existsSync
WatchBegin(fn, range) ==
    LET path == PathJoin(downloadsDir, fn)
        r == [IdleReq EXCEPT !.fn = fn, !.path = path, !.range = range,
                !.existed = IsFile(path),
                !.stored = \E n \in StoreNames : fn = << n >> /\ files[n].ino # 0]
    IN /\ alive /\ req.pc = "idle"
       /\ req' = IF existsSync(path)
                 THEN [r EXCEPT !.pc = "stat"]
                 ELSE [r EXCEPT !.pc = "done", !.status = StatusNotFound,
                                !.text = "Video not found", !.end = "finished"]
       /\ UNCHANGED <<now, alive, files, dl, jobs, unlinks, sweep, console, faults, dels>>

\* fs.statSync, the range parsing, fs.createReadStream and res.writeHead
WatchStat ==
    /\ alive /\ req.pc = "stat"
    /\ req' =
         IF ~existsSync(req.path) THEN Thrown([req EXCEPT !.existed = FALSE])
         ELSE LET fileSize == SizeAt(req.path)
                  snap == IF req.path \in Dirs THEN <<>> ELSE ContentAt(req.path)
                  r == [req EXCEPT !.snap = snap, !.seen = snap]
              IN IF Truthy(req.range)
                 THEN LET start == RangeStart(req.range.text)
                          end == RangeEnd(req.range.text, fileSize)
                      IN IF ~StreamOptionsOK(start, end) THEN Thrown(r)
                         ELSE [r EXCEPT !.pc = "open", !.status = StatusPartial,
                                 !.first = start, !.last = end,
                                 !.head = PartialHead(start, end, fileSize)]
                 ELSE [r EXCEPT !.pc = "open", !.status = StatusOK,
                         !.first = 0, !.last = fileSize - 1,
                         !.head = FullHead(fileSize)]
    /\ UNCHANGED <<now, alive, files, dl, jobs, unlinks, sweep, console, faults, dels>>

\* an uncaught exception ends the process: its timers, pending callbacks and
\* open responses are gone, the files stay
Crashed(line) ==
    /\ alive' = FALSE
    /\ console' = Logged(line)
    /\ jobs' = {}
    /\ unlinks' = {}
    /\ sweep' = [sweep EXCEPT !.armed = FALSE, !.pc = "idle", !.ops = NoOps,
                              !.listed = {}, !.checked = {}, !.failed = {},
                              !.failure = "none"]
    /\ req' = [req EXCEPT !.pc = "done", !.end = "reset", !.existed = FALSE]
    /\ UNCHANGED <<now, files, dl, faults, dels>>

\* the read stream opens the file and pipes it into the response; its
\* 'error' event (ENOENT, EISDIR) has no listener
WatchOpen ==
    /\ alive /\ req.pc = "open"
    /\ IF req.path \in Dirs \/ ~existsSync(req.path)
       THEN Crashed(<<"uncaught", <<"ReadStream">>>>)
       ELSE LET c == ContentAt(req.path)
                body == IF req.status = StatusPartial
                        THEN StreamBytes(c, req.first, req.last) ELSE c
            IN /\ req' = [req EXCEPT !.pc = "done", !.seen = c, !.body = body,
                                     !.end = Ending(req.head.length, body)]
               /\ UNCHANGED <<now, alive, files, dl, jobs, unlinks, sweep, console,
                              faults, dels>>

\* the response is over
WatchEnd ==
    /\ alive /\ req.pc = "done"
    /\ req' = IdleReq
    /\ UNCHANGED <<now, alive, files, dl, jobs, unlinks, sweep, console, faults, dels>>

\* ------------------------------------------------------------------ clock
\* node-schedule fires every job whose time has come, and the thread pool
\* finishes the issued filesystem calls, before the clock shows the next
\* tick; a running download spans at most MaxDownloadTicks ticks.  The hours
\* before the first download are all alike: one of them is modelled.  A dead
\* process fires nothing.
Quiet ==
    /\ \A j \in jobs : j.at > now
    /\ unlinks = {}
    /\ ~SweepDue /\ ~SweepBusy
    /\ req.pc = "idle"
    /\ \A d \in Downloads : dl[d].pc = "writing" => now - dl[d].since < MaxDownloadTicks
    /\ now + 1 < HOUR \/ \E d \in Downloads : dl[d].pc # "new"

Tick ==
    /\ now < MaxTime
    /\ alive => Quiet
    /\ now' = now + 1
    /\ UNCHANGED <<alive, files, dl, jobs, unlinks, sweep, req, console, faults, dels>>

Init ==
    /\ now = 0
    /\ alive = TRUE
    /\ files = [n \in StoreNames |-> NoFile]
    /\ dl = [d \in Downloads |-> NewDownload]
    /\ jobs = {}
    /\ unlinks = {}
    /\ sweep = [armed |-> TRUE, last |-> 0 - 1, pc |-> "idle", ops |-> NoOps,
                listed |-> {}, checked |-> {}, failed |-> {}, failure |-> "none"]
    /\ req = IdleReq
    /\ console = <<"listening", <<>>>>
    /\ faults = 0
    /\ dels = [n \in StoreNames |-> <<>>]

\* the requests of the retention runs: downloads of one chunk under one
\* stored filename; GET /watch for it and for the store's own directory,
\* with no range header, in the hours around the first file's expiry
WatchArrivals == { t \in Arrivals : t >= TTL - HOUR }
SpecSizes == { 1 }
SpecTitles == { t \in Titles : VideoFilename(t) = VideoFilename(<<"a">>) }
SpecWatches == { << VideoFilename(<<"a">>) >>, << Dot >> }

Next ==
    \/ \E d \in Downloads : DownloadNoUrl(d)
    \/ \E d \in Downloads : DownloadNull(d)
    \/ \E d \in Downloads, t \in SpecTitles, len \in SpecSizes : DownloadOpen(d, t, len)
    \/ \E d \in Downloads : DownloadWrite(d)
    \/ \E d \in Downloads : DownloadStall(d)
    \/ \E d \in Downloads : DownloadFinish(d)
    \/ \E j \in jobs : OneShotFire(j)
    \/ \E u \in unlinks, f \in FaultChoices : OneShotUnlink(u, f)
    \/ SweepTick
    \/ \E f \in FaultChoices : SweepReaddir(f)
    \/ \E n \in StoreNames, f \in FaultChoices : SweepStat(n, f)
    \/ \E n \in StoreNames, f \in FaultChoices : SweepUnlink(n, f)
    \/ \E fn \in SpecWatches : now \in WatchArrivals /\ WatchBegin(fn, NoRange)
    \/ WatchStat
    \/ WatchOpen
    \/ WatchEnd
    \/ Tick

Spec == Init /\ [][Next]_vars

\* ------------------------------------------------- the streaming responder
\* The responder's runs start when the first download's file, registered at
\* time 0, reaches its expiry: its one-shot deletion is due, a second
\* download may overwrite it, and GET /watch requests of every modelled
\* filename and range header race with both.  The clock stands still.
Written(d, len) == [k \in 1..len |-> ByteOf(d, k - 1)]

InitWatch ==
    \E len \in 1..MaxSize :
       LET n == VideoFilename(<<"a">>) IN
       /\ now = TTL
       /\ alive = TRUE
       /\ files = [m \in StoreNames |->
                     IF m = n THEN [ino |-> 1, owner |-> 1, content |-> Written(1, len),
                                    mtime |-> 0]
                     ELSE NoFile]
       /\ dl = [d \in Downloads |->
                  IF d = 1 THEN [NewDownload EXCEPT !.pc = "done", !.name = n, !.len = len,
                                                    !.pos = len, !.ino = 1, !.resp = "urls"]
                  ELSE NewDownload]
       /\ jobs = { [id |-> 1, name |-> n, at |-> TTL] }
       /\ unlinks = {}
       /\ sweep = [armed |-> TRUE, last |-> TTL, pc |-> "idle", ops |-> NoOps,
                   listed |-> {n}, checked |-> {n}, failed |-> {}, failure |-> "none"]
       /\ req = IdleReq
       /\ console = <<"downloaded", n>>
       /\ faults = 0
       /\ dels = [m \in StoreNames |-> <<>>]

Ghost == <<"g", Mp4>>
WatchNames ==
    { << VideoFilename(<<"a">>) >>, << Ghost >>, << DotDot, <<".env">> >>, << Dot >> }

NumTexts == { Dec(k) : k \in 0..MaxSize }
RangeText(a, b) == BytesEq \o a \o <<"-">> \o b
RangeHeaders ==
    { NoRange, Header(<<>>), Header(RangeText(<<"x">>, <<>>)),
      Header(Dec(0) \o <<"-">> \o Dec(0)), Header(RangeText(Dec(10), Dec(11))) }
    \cup { Header(RangeText(a, b)) : a \in NumTexts \cup {<<>>}, b \in NumTexts \cup {<<>>} }

NextWatch ==
    \/ \E d \in Downloads, t \in Titles, len \in 1..MaxSize : DownloadOpen(d, t, len)
    \/ \E d \in Downloads : DownloadWrite(d)
    \/ \E d \in Downloads : DownloadFinish(d)
    \/ \E j \in jobs : OneShotFire(j)
    \/ \E u \in unlinks, f \in FaultChoices : OneShotUnlink(u, f)
    \/ \E fn \in WatchNames, range \in RangeHeaders : WatchBegin(fn, range)
    \/ WatchStat
    \/ WatchOpen
    \/ WatchEnd

SpecWatch == InitWatch /\ [][NextWatch]_vars

\* ----------------------------------------------------------- sweep passes
\* The sweep's runs start at the 24th hour with two files in the store, left
\* by downloads that broke off in the first hour (no one-shot deletion was
\* scheduled for them); the pass of the hour before has looked at both.
SweepNames == { VideoFilename(<<"a">>), VideoFilename(<<"b">>) }

InitSweep ==
    \E ma \in 0..HOUR, mb \in 0..HOUR :
       LET a == VideoFilename(<<"a">>)
           mtimeOf == [n \in StoreNames |-> IF n = a THEN ma ELSE mb]
           dlOf == [n \in StoreNames |-> IF n = a THEN 1 ELSE 2]
       IN
       /\ now = TTL
       /\ alive = TRUE
       /\ files = [n \in StoreNames |->
                     [ino |-> dlOf[n], owner |-> dlOf[n],
                      content |-> << ByteOf(dlOf[n], 0) >>, mtime |-> mtimeOf[n]]]
       /\ dl = [d \in Downloads |->
                  IF d <= 2
                  THEN [NewDownload EXCEPT !.pc = "stalled", !.len = MaxSize, !.pos = 1,
                          !.ino = d,
                          !.name = IF d = 1 THEN a ELSE VideoFilename(<<"b">>)]
                  ELSE NewDownload]
       /\ jobs = {}
       /\ unlinks = {}
       /\ sweep = [armed |-> TRUE, last |-> TTL - HOUR, pc |-> "idle", ops |-> NoOps,
                   listed |-> SweepNames, checked |-> SweepNames, failed |-> {},
                   failure |-> "none"]
       /\ req = IdleReq
       /\ console = <<"listening", <<>>>>
       /\ faults = 0
       /\ dels = [n \in StoreNames |-> <<>>]

NextSweep ==
    \/ SweepTick
    \/ \E f \in FaultChoices : SweepReaddir(f)
    \/ \E n \in StoreNames, f \in FaultChoices : SweepStat(n, f)
    \/ \E n \in StoreNames, f \in FaultChoices : SweepUnlink(n, f)
    \/ Tick

SpecSweep == InitSweep /\ [][NextSweep]_vars

\* ----------------------------------------------------------------- claims
LastTop == now - (now % HOUR)
UncaughtInWatch == <<"uncaught", <<"ReadStream">>>>

\* C1: a file registered at time T is absent from the store at every time
\* >= T + 24h + one sweep cadence, for every alignment of T to the hourly tick.
C1_AbsentAfterExpiry ==
    \A d \in Downloads :
        (dl[d].pc = "done" /\ now >= dl[d].at + TTL + HOUR)
            => ~(files[dl[d].name].ino # 0 /\ files[dl[d].name].owner = d)

\* C2: when the one-shot deletion and the sweep both unlink the same file (no
\* filesystem error injected), whichever comes first removes it, every later
\* attempt finds it gone, the file is absent afterwards, and no unlink
\* callback ends the process: the only uncaught exception is /watch's.
C2_DoubleDeleteTolerated ==
    /\ \A n \in StoreNames :
          LET h == dels[n] IN
          (/\ \E i \in 1..Len(h) : h[i].by = "oneshot"
           /\ \E i \in 1..Len(h) : h[i].by = "sweep"
           /\ \A i \in 1..Len(h) : h[i].res # "fault")
              => /\ files[n].ino = 0
                 /\ h[1].res = "ok"
                 /\ \A i \in 2..Len(h) : h[i].res = "enoent"
    /\ \A n \in StoreNames :
          (dels[n] # <<>> /\ dels[n][Len(dels[n])].res = "enoent") => files[n].ino = 0
    /\ ~alive => console = UncaughtInWatch

\* C2's case: the sweep's unlink came first, the one-shot's found the file gone
C2_SweepThenOneShot ==
    \E n \in StoreNames :
        /\ dels[n] = << [by |-> "sweep", res |-> "ok"], [by |-> "oneshot", res |-> "enoent"] >>
        /\ alive

\* C3: the process never terminates because a file operation fails.
C3_NeverTerminates == alive

\* C4: for an existing file of size S that stays as it is during the request
\* and a header bytes=a-b with 0 <= a <= b <= S-1, the answer is 206 with
\* Content-Length b-a+1, Content-Range "bytes a-b/S", Accept-Ranges bytes,
\* Content-Type video/mp4 and exactly the bytes a..b of the file.
C4_RangeResponse ==
    \A a \in 0..Len(req.snap), b \in 0..Len(req.snap) :
        (/\ req.pc = "done" /\ req.existed /\ req.seen = req.snap
         /\ req.range = Header(RangeText(Dec(a), Dec(b)))
         /\ a <= b /\ b <= Len(req.snap) - 1)
            => /\ req.status = StatusPartial
               /\ req.head.length = b - a + 1
               /\ req.head.range = <<"bytes ">> \o Dec(a) \o <<"-">> \o Dec(b) \o <<"/">>
                                      \o Dec(Len(req.snap))
               /\ req.head.accept = "bytes"
               /\ req.head.type = "video/mp4"
               /\ req.body = SubSeq(req.snap, a + 1, b + 1)
               /\ req.end = "finished"

\* C4's case: a range strictly inside a stored file has been served
C4_InnerRangeServed ==
    /\ req.pc = "done" /\ req.existed /\ req.seen = req.snap
    /\ IsStored(req.path)
    /\ req.range = Header(RangeText(Dec(1), Dec(1)))
    /\ Len(req.snap) >= 2

\* C5: for an existing file of size S that stays as it is during the request,
\* a request without a range header is answered 200 with Content-Length S,
\* Content-Type video/mp4 and the S bytes of the file.
C5_FullResponse ==
    (req.pc = "done" /\ req.existed /\ req.seen = req.snap /\ ~req.range.given)
        => /\ req.status = StatusOK
           /\ req.head.length = Len(req.snap)
           /\ req.head.type = "video/mp4"
           /\ req.body = req.snap
           /\ req.end = "finished"

\* C5's case: a stored file of more than one byte has been served whole
C5_WholeFileServed ==
    /\ req.pc = "done" /\ req.existed /\ req.seen = req.snap /\ ~req.range.given
    /\ IsStored(req.path)
    /\ Len(req.snap) >= 2

\* C6: a request for a filename that is not in the store is answered 404
\* "Video not found", whatever its range header.
C6_NotStoredIs404 ==
    (req.pc # "idle" /\ ~req.stored)
        => /\ req.pc = "done"
           /\ req.status = StatusNotFound
           /\ req.text = "Video not found"

\* C7: the client sees 404, 200, 206 or a dropped connection, no other status.
C7_OnlyKnownStatuses ==
    req.pc # "idle" => req.status \in {0, StatusNotFound, StatusOK, StatusPartial}

\* C8: the path derived from :filename lies strictly inside the downloads
\* directory.
C8_PathInsideRoot == req.pc # "idle" => Inside(downloadsDir, req.path)

\* C9: a readdir, stat or unlink failure in a sweep pass does not stop the
\* cadence: the hourly job stays scheduled and fires at every top of the
\* hour, each pass calls stat on every listed file, and no sweep callback
\* ends the process (the only uncaught exception is /watch's).
C9_CadenceSurvivesFailure ==
    /\ (alive /\ sweep.failure # "none")
          => /\ sweep.armed
             /\ sweep.last = LastTop \/ (now % HOUR = 0 /\ sweep.last = now - HOUR)
    /\ alive => \A n \in sweep.listed : sweep.ops[n] = "stat" \/ n \in sweep.checked
    /\ ~alive => console = UncaughtInWatch

\* C9's case: after a failed pass a later pass has evaluated a stored file
C9_PassAfterFailure ==
    /\ alive
    /\ sweep.failure = "earlier"
    /\ sweep.checked # {} /\ ~SweepBusy

\* C10: serving GET /watch changes neither the stored files nor the pending
\* scheduled deletions.
C10_WatchReadOnly == [][req' # req => (files' = files /\ jobs' = jobs)]_vars

\* C11: for an existing file of size S that stays as it is during the
\* request, a header bytes=a- with 0 <= a <= S-1 is answered 206 with
\* Content-Range "bytes a-(S-1)/S", Content-Length S-a and the bytes a..S-1;
\* an end that is present is used as given, 0 included: bytes=0-0 delivers
\* exactly the first byte.
C11_OpenEndedAndExplicitEnd ==
    /\ \A a \in 0..Len(req.snap) :
          (/\ req.pc = "done" /\ req.existed /\ req.seen = req.snap
           /\ req.range = Header(RangeText(Dec(a), <<>>))
           /\ a <= Len(req.snap) - 1)
              => /\ req.status = StatusPartial
                 /\ req.head.range = <<"bytes ">> \o Dec(a) \o <<"-">>
                                        \o Dec(Len(req.snap) - 1) \o <<"/">>
                                        \o Dec(Len(req.snap))
                 /\ req.head.length = Len(req.snap) - a
                 /\ req.body = SubSeq(req.snap, a + 1, Len(req.snap))
                 /\ req.end = "finished"
    /\ \A a \in 0..MaxSize, b \in 0..MaxSize :
          (/\ req.pc \in {"open", "done"} /\ req.status = StatusPartial
           /\ req.range = Header(RangeText(Dec(a), Dec(b))))
              => req.last = b
    /\ (/\ req.pc = "done" /\ req.existed /\ req.seen = req.snap
        /\ req.range = Header(RangeText(Dec(0), Dec(0)))
        /\ Len(req.snap) >= 1)
           => /\ req.status = StatusPartial
              /\ req.head.length = 1
              /\ req.body = << req.snap[1] >>

\* C11's case: an open-ended range from inside a stored file has been served
C11_TailServed ==
    /\ req.pc = "done" /\ req.existed /\ req.seen = req.snap
    /\ IsStored(req.path)
    /\ req.range = Header(RangeText(Dec(1), <<>>))
    /\ Len(req.snap) >= 2
    /\ req.body = << req.snap[2] >>

\* C12: a one-shot deletion that removes a stored file removes the file of a
\* finished registration, and not before that registration's time + 24h.
C12_OneShotNotEarly ==
    [][\A u \in unlinks :
          (/\ u \notin unlinks'
           /\ files[u.name].ino # 0 /\ files'[u.name].ino = 0)
              => LET d == files[u.name].owner IN
                 /\ dl[d].pc = "done"
                 /\ now >= dl[d].at + TTL]_vars

\* C13: while the hourly job ticks and no filesystem call is handed an
\* injected error, a file with modification time t0 is gone once the sweep
\* pass of a tick at or after t0 + 25h has run, whether or not a one-shot
\* deletion is pending for it.
C13_SweepBackstop ==
    \A n \in StoreNames :
        ~(/\ alive /\ faults = 0
          /\ sweep.last = LastTop /\ ~SweepBusy
          /\ files[n].ino # 0
          /\ sweep.last >= files[n].mtime + TTL + HOUR)

\* C13's case: the sweep has removed the file a broken-off download left,
\* for which no one-shot deletion was ever scheduled
C13_SweptWithoutOneShot ==
    \E d \in Downloads :
        /\ alive /\ faults = 0
        /\ dl[d].pc = "stalled"
        /\ \A e \in Downloads : dl[e].pc = "done" => dl[e].name # dl[d].name
        /\ files[dl[d].name].ino = 0
        /\ dels[dl[d].name] = << [by |-> "sweep", res |-> "ok"] >>
        /\ now <= TTL + HOUR

\* C14: whatever the range header on an existing file that stays as it is,
\* the request ends with a finished response that delivered as many bytes as
\* its Content-Length declared, and the process is alive.
C14_RangeNeverBreaks ==
    (req.pc = "done" /\ req.existed /\ req.seen = req.snap /\ Truthy(req.range))
        => /\ alive
           /\ req.end = "finished"
           /\ req.status = StatusPartial => Len(req.body) = req.head.length

\* C15: a stored file is removed only by the sweep's unlink or by the unlink
\* of the one-shot job scheduled at its own registration, and at most one
\* unlink succeeds on it.
C15_RemovedOnceByOwnTrigger ==
    [][\A n \in StoreNames :
          /\ (files[n].ino # 0 /\ files'[n].ino = 0)
                => \/ sweep.ops[n] = "unlink" /\ sweep'.ops[n] = "none"
                   \/ \E u \in unlinks : /\ u \notin unlinks'
                                          /\ u.name = n
                                          /\ u.id = files[n].owner
          /\ Cardinality({ i \in 1..Len(dels'[n]) : dels'[n][i].res = "ok" }) <= 1]_vars

\* C16: in a pass, every listed entry gets its stat callback and, if it is
\* older than 24h, its unlink, whatever happens to the other entries: once
\* the calls for an entry that met no error itself are through, it has been
\* checked and is gone if it was older than 24h, also while another entry's
\* call is still pending or has failed.
C16_EntriesIndependent ==
    alive =>
       /\ \A n \in sweep.listed : sweep.ops[n] = "stat" \/ n \in sweep.checked
       /\ \A n \in sweep.listed \ sweep.failed :
             (now = sweep.last /\ sweep.ops[n] = "none")
                => /\ n \in sweep.checked
                   /\ files[n].ino = 0 \/ now - files[n].mtime <= TTL

\* C16's case: one entry's call failed and the other entry of the same pass
\* has been unlinked
C16_OtherEntryRemoved ==
    \E m \in StoreNames, n \in StoreNames :
        /\ alive /\ now = sweep.last
        /\ m # n /\ sweep.listed = {m, n}
        /\ sweep.failed = {m}
        /\ console = <<"sweep-deleted", n>>
        /\ files[n].ino = 0 /\ files[m].ino # 0

\* C17: while the process runs, the pending one-shot jobs are exactly one
\* per finished download whose 24h have not passed, for that download's
\* path and at its finish time + 24h; a failed download and a request
\* without teraUrl have none; no job is overdue, so each fires at its time.
C17_OneJobPerRegistration ==
    alive =>
       /\ \A d \in Downloads :
             (dl[d].pc = "done" /\ now < dl[d].at + TTL)
                => Cardinality({ j \in jobs : j.id = d }) = 1
       /\ \A j \in jobs :
             /\ dl[j.id].pc = "done"
             /\ j.name = dl[j.id].name
             /\ j.at = dl[j.id].at + TTL
             /\ j.at >= now
       /\ \A n \in StoreNames :
             Cardinality({ j \in jobs : j.name = n })
                = Cardinality({ d \in Downloads :
                                  /\ dl[d].pc = "done" /\ dl[d].name = n
                                  /\ [id |-> d, name |-> n, at |-> dl[d].at + TTL] \in jobs })

\* C17's case: two registrations of the same filename, two jobs pending with
\* their own times
C17_TwoJobsSamePath ==
    \E j \in jobs, k \in jobs :
        /\ alive
        /\ j.name = k.name /\ j.id # k.id /\ j.at < k.at
        /\ Cardinality(jobs) = 2

\* C18: the stat callback of a sweep pass issues the unlink of its entry if
\* and only if stat succeeded and now - mtime is strictly greater than 24h,
\* and the sweep issues an unlink nowhere else.
C18_UnlinkIffOlder ==
    [][\A n \in StoreNames :
          /\ (sweep.ops[n] = "stat" /\ sweep'.ops[n] # "stat" /\ alive')
                => (sweep'.ops[n] = "unlink"
                      <=> /\ files[n].ino # 0 /\ faults' = faults
                          /\ now - files[n].mtime > TTLHours * HOUR)
          /\ (sweep.ops[n] # "unlink" /\ sweep'.ops[n] = "unlink")
                => sweep.ops[n] = "stat"]_vars

\* C18's case: a file of exactly 24h has been stat-ed and skipped
C18_ExactlyTTLSkipped ==
    \E n \in StoreNames :
        /\ alive /\ now = sweep.last
        /\ n \in sweep.checked \ sweep.failed
        /\ sweep.ops[n] = "none"
        /\ files[n].ino # 0
        /\ now - files[n].mtime = TTLHours * HOUR
        /\ dels[n] = <<>>

\* C19: when two downloads of the same filename have both finished and
\* nothing has been deleted yet, the file exists and holds the complete
\* content of the download that finished later.
C19_LastWriterWins ==
    \A d \in Downloads, e \in Downloads :
        (/\ dl[d].pc = "done" /\ dl[e].pc = "done"
         /\ dl[d].name = dl[e].name
         /\ dl[d].at > dl[e].at
         /\ now < TTL)
            => /\ files[dl[d].name].ino # 0
               /\ files[dl[d].name].content = Written(d, dl[d].len)

\* C20: a file the sweep's unlink removes is older than 24h at that moment.
C20_SweepRemovesOnlyOld ==
    [][\A n \in StoreNames :
          (/\ sweep.ops[n] = "unlink" /\ sweep'.ops[n] = "none"
           /\ files[n].ino # 0 /\ files'[n].ino = 0)
              => now - files[n].mtime > TTL]_vars

====
